---- MODULE Spec2Model ----
(***************************************************************************)
(* State-machine model of the chat client (static/js/app.js and its        *)
(* near-duplicate).  One action per event handler or per resumption of an  *)
(* async function after an await; everything a handler does between two   *)
(* awaits is one atomic step (single-threaded event loop).                 *)
(***************************************************************************)
EXTENDS Integers, Sequences, FiniteSets, TLC

\* ------------------------------------------------------------------ bounds
MaxSends == 2
MaxFrames == 3
MaxNewChats == 1
MaxListFetches == 2
MaxLoads == 2
MaxDeletes == 1
MaxAppends == 3

\* ------------------------------------------------------------- basic values
Null == <<>>

\* session ids: 'session_' + Date.now() on the client, opaque ids on the server
GenId(t) == <<"session", t>>
SrvIds == {<<"srv", 1>>, <<"srv", 2>>}

\* node content: innerHTML (markup) or textContent (literal text)
Html(s) == [as |-> "html", v |-> s]
TextContent(s) == [as |-> "text", v |-> s]

\* marked.parse: the accumulated text rendered as one block; the rendering of a
\* concatenation is not the concatenation of the renderings
Marked(s) == IF s = <<>> THEN <<>> ELSE <<"<p>">> \o s \o <<"</p>">>

FetchErrorText == <<"Error: Unable to fetch response. Please try again.">>

\* String.prototype.trim
RECURSIVE TrimLeft(_)
TrimLeft(s) ==
    IF s # <<>> /\ Head(s) = " " THEN TrimLeft(Tail(s)) ELSE s

RECURSIVE TrimRight(_)
TrimRight(s) ==
    IF s # <<>> /\ s[Len(s)] = " " THEN TrimRight(SubSeq(s, 1, Len(s) - 1)) ELSE s

Trim(s) == TrimRight(TrimLeft(s))

\* what the user can have in the input box, what a suggestion chip carries
InputValues == {<<>>, <<" ">>, <<" ", "h", " ">>}
SuggestionTexts == {<<"q">>}

\* ------------------------------------------------------------ stream lines
\* One line of a decoded chunk after chunk.split('\n'): whether it starts with
\* 'data: ', whether the rest parses as JSON, and the fields of the parsed object
\* (an absent field reads as falsy: empty string, false).
Line(prefix, valid, text, done, error) ==
    [prefix |-> prefix, valid |-> valid, text |-> text, done |-> done, error |-> error]

TextFrame(d) == Line(TRUE, TRUE, d, FALSE, <<>>)
DoneFrame == Line(TRUE, TRUE, <<>>, TRUE, <<>>)
ErrorFrame(m) == Line(TRUE, TRUE, <<>>, FALSE, m)
Malformed == Line(TRUE, FALSE, <<>>, FALSE, <<>>)
Blank == Line(FALSE, FALSE, <<>>, FALSE, <<>>)

\* the deltas of Text frames; {"text": ""} is a Text frame with an empty delta
Deltas == {<<>>, <<"a">>, <<"b">>}
ErrorTexts == {<<"e">>}

Lines ==
    {TextFrame(d) : d \in Deltas} \cup {ErrorFrame(m) : m \in ErrorTexts}
        \cup {DoneFrame, Malformed, Blank}

\* the chunks of at most n lines (a chunk always splits into at least one line)
ChunksUpTo(n) == UNION {[1..k -> Lines] : k \in 1..n}

IsTextFrame(l) == l.prefix /\ l.valid /\ ~l.done /\ l.error = <<>>
IsDoneFrame(l) == l.prefix /\ l.valid /\ l.text = <<>> /\ l.done
IsErrorFrame(l) == l.prefix /\ l.valid /\ l.text = <<>> /\ ~l.done /\ l.error # <<>>
IsMalformed(l) == l.prefix /\ ~l.valid

\* ------------------------------------------------------------- the viewport
\* heights in px: clientHeight of #chat-messages, and what isNearBottom allows
ClientHeight == 20
NearThreshold == 10
MessageHeights == {5, 11}

Viewport(top, client, content) ==
    [scrollTop |-> top, clientHeight |-> client, contentHeight |-> content]

\* scrollHeight: the height of the content, at least the height of the element
ScrollHeight(v) ==
    IF v.contentHeight > v.clientHeight THEN v.contentHeight ELSE v.clientHeight

\* chatMessages.scrollTop = x: the value is clamped to the scrollable range
SetScrollTop(v, x) ==
    LET most == ScrollHeight(v) - v.clientHeight
    IN  [v EXCEPT !.scrollTop = IF x > most THEN most ELSE IF x < 0 THEN 0 ELSE x]

\* ------------------------------------------------------------- suggestions
PoolSize == 5
SuggestionPool == [p \in 1..PoolSize |-> <<"suggestion", p>>]

\* the orders the sort with the random comparator can leave the copy in
Shuffles(n) == {f \in [1..n -> 1..n] : \A p, q \in 1..n : f[p] = f[q] => p = q}

\* ---------------------------------------------------------------- DOM nodes
Node(k, role, c, own) == [k |-> k, role |-> role, c |-> c, own |-> own]

EmptyState(chips) ==
    Node(IF chips THEN "emptyChips" ELSE "empty", "", Html(<<>>), Null)
UserMessage(m, i) == Node("msg", "user", TextContent(m), <<"user", i>>)
TypingDiv(i) == Node("typing", "", Html(<<>>), <<"typing", i>>)
MessageDiv(i) == Node("div", "bot", Html(<<>>), <<"div", i>>)
ErrorMessage(i) == Node("msg", "bot", Html(Marked(FetchErrorText)), <<"err", i>>)

LoadingIndicator == Node("loading", "", Html(<<>>), Null)

IsEmptyState(n) == n.k \in {"empty", "emptyChips"}

RECURSIVE Without(_, _)
Without(seq, n) ==
    IF seq = <<>> THEN <<>>
    ELSE IF Head(seq) = n THEN Without(Tail(seq), n)
    ELSE <<Head(seq)>> \o Without(Tail(seq), n)

Has(seq, n) == \E p \in 1..Len(seq) : seq[p] = n

\* localStorage before anything was stored: getItem returns null for both keys
NoItems == [theme |-> Null, tts |-> Null]

\* -------------------------------------------------------------------- state
VARIABLES
    sessionId,            \* let sessionId
    clock,                \* the Date.now() value the last generated id was made of
    inputValue,           \* messageInput.value
    inputDisabled,        \* messageInput.disabled
    sendDisabled,         \* sendButton.disabled
    chatMessages,         \* children of #chat-messages, in document order
    emptyTimer,           \* a setTimeout(() => emptyState.remove(), 300) is pending
    sends,                \* the sendMessage calls: locals of each, and its messageDiv
    listFetches,          \* GET /history/sessions requests awaiting their response
    chatList,             \* children of #chat-list (rows of the sidebar)
    isTTSEnabled,         \* let isTTSEnabled
    utterance,            \* the utterance speechSynthesis is speaking, or Null
    currentChatToDelete,  \* let currentChatToDelete
    menuShown,            \* contextMenu has class 'show'
    modalShown,           \* #delete-modal has class 'show'
    deletes,              \* the deleteChat calls that issued POST /history/clear
    alerts,               \* number of alert() dialogs shown
    loads,                \* the loadChat calls
    pageLoad,             \* where the window 'load' listener stands
    viewport,             \* scrollTop and clientHeight of #chat-messages, height of its content
    suggestionPool,       \* const suggestionPool
    suggestions,          \* the last call of getRandomSuggestions: its count and the array returned
    theme,                \* the data-theme attribute of the document element
    localStorage,         \* the items 'theme' and 'tts-enabled' of localStorage
    wire,                 \* the /chat response: its frames, what is left to read, where reads ended
    streamNearBottom      \* const wasNearBottom of the streaming sendMessage call, and its frames

vars ==
    <<sessionId, clock, inputValue, inputDisabled, sendDisabled, chatMessages,
      emptyTimer, sends, listFetches, chatList, isTTSEnabled, utterance,
      currentChatToDelete, menuShown, modalShown, deletes, alerts, loads, pageLoad,
      viewport, suggestionPool, suggestions, theme, localStorage, wire, streamNearBottom>>

\* pixel layout and the suggestion arrays are followed by SpecScroll and
\* SpecSuggest; the other specifications leave them as they start
layoutVars == <<viewport, suggestionPool, suggestions>>

\* the stored preferences, the bytes of a response and the scroll position of a
\* streaming reply are followed by SpecPrefs, SpecCut and SpecScroll
restVars == <<theme, localStorage, wire, streamNearBottom>>

sendVars == <<inputValue, inputDisabled, sendDisabled, sends>>
speechVars == <<isTTSEnabled, utterance>>
deleteVars == <<currentChatToDelete, menuShown, modalShown, deletes, alerts>>

Init ==
    /\ clock = 0
    /\ sessionId = GenId(0)
    /\ inputValue = <<>>
    /\ inputDisabled = FALSE
    /\ sendDisabled = FALSE
    /\ chatMessages = <<EmptyState(FALSE), LoadingIndicator>>
    /\ emptyTimer = FALSE
    /\ sends = <<>>
    /\ listFetches = 0
    /\ chatList = <<>>
    /\ isTTSEnabled = TRUE
    /\ utterance = Null
    /\ currentChatToDelete = Null
    /\ menuShown = FALSE
    /\ modalShown = FALSE
    /\ deletes = <<>>
    /\ alerts = 0
    /\ loads = <<>>
    /\ pageLoad = "history"
    /\ viewport = Viewport(0, ClientHeight, 0)
    /\ suggestionPool = SuggestionPool
    /\ suggestions = Null
    /\ theme = "light"
    /\ localStorage = NoItems
    /\ wire = Null
    /\ streamNearBottom = Null

\* the page after its load listener has finished with an empty history and an
\* empty session list (LoadHistoryOk(<<>>), then PageSessionsOk(<<>>))
Loaded ==
    /\ clock = 0
    /\ sessionId = GenId(0)
    /\ inputValue = <<>>
    /\ inputDisabled = FALSE
    /\ sendDisabled = FALSE
    /\ chatMessages = <<EmptyState(FALSE)>>
    /\ emptyTimer = FALSE
    /\ sends = <<>>
    /\ listFetches = 0
    /\ chatList = <<>>
    /\ isTTSEnabled = TRUE
    /\ utterance = Null
    /\ currentChatToDelete = Null
    /\ menuShown = FALSE
    /\ modalShown = FALSE
    /\ deletes = <<>>
    /\ alerts = 0
    /\ loads = <<>>
    /\ pageLoad = "done"
    /\ viewport = Viewport(0, ClientHeight, 0)
    /\ suggestionPool = SuggestionPool
    /\ suggestions = Null
    /\ theme = "light"
    /\ localStorage = NoItems
    /\ wire = Null
    /\ streamNearBottom = Null

\* ------------------------------------------------------------------ speech
\* speak(text): the utterance speaking after the call
speak(text, enabled, current) ==
    IF ~enabled THEN current ELSE <<text>>

\* ------------------------------------------------------- the stream consumer
\* The part of the state one line of a chunk can touch: the locals fullText and
\* messageDiv, the utterance, and the number of session-list requests in flight.
\* thrown: an exception left the loop body for the catch block of sendMessage.
StreamState(fullText, content, utt, fetches) ==
    [fullText |-> fullText, content |-> content, utt |-> utt, fetches |-> fetches,
     thrown |-> FALSE]

\* ProcessLine with the delta assigned, not appended
ProcessLineOverwrites(st, line, tts) ==
    IF ~line.prefix \/ ~line.valid THEN st
    ELSE IF line.text # <<>> THEN
        [st EXCEPT !.fullText = line.text, !.content = Html(Marked(line.text))]
    ELSE IF line.done THEN
        [st EXCEPT !.utt = speak(st.fullText, tts, st.utt), !.fetches = st.fetches + 1]
    ELSE IF line.error # <<>> THEN
        [st EXCEPT !.content = TextContent(<<"Error: ">> \o line.error)]
    ELSE st

\* ProcessLine without the inner try/catch: the parse error leaves the loop
ProcessLineNoInnerCatch(st, line, tts) ==
    IF ~line.prefix THEN st
    ELSE IF ~line.valid THEN [st EXCEPT !.thrown = TRUE]
    ELSE IF line.text # <<>> THEN
        [st EXCEPT !.fullText = st.fullText \o line.text,
                   !.content = Html(Marked(st.fullText \o line.text))]
    ELSE IF line.done THEN
        [st EXCEPT !.utt = speak(st.fullText, tts, st.utt), !.fetches = st.fetches + 1]
    ELSE IF line.error # <<>> THEN
        [st EXCEPT !.content = TextContent(<<"Error: ">> \o line.error)]
    ELSE st

\* ProcessLine with a Done branch that speaks and does not refresh the list
ProcessLineDoneNoRefresh(st, line, tts) ==
    IF ~line.prefix \/ ~line.valid THEN st
    ELSE IF line.text # <<>> THEN
        [st EXCEPT !.fullText = st.fullText \o line.text,
                   !.content = Html(Marked(st.fullText \o line.text))]
    ELSE IF line.done THEN
        [st EXCEPT !.utt = speak(st.fullText, tts, st.utt)]
    ELSE IF line.error # <<>> THEN
        [st EXCEPT !.content = TextContent(<<"Error: ">> \o line.error)]
    ELSE st

\* the body of `for (const line of lines)`: JSON.parse throws on a line that is
\* not valid JSON and the inner catch logs it
ProcessLine(st, line, tts) ==
    IF ~line.prefix THEN st
    ELSE IF ~line.valid THEN st
    ELSE IF line.text # <<>> THEN
        [st EXCEPT !.fullText = st.fullText \o line.text,
                   !.content = Html(Marked(st.fullText \o line.text))]
    ELSE IF line.done THEN
        [st EXCEPT !.utt = speak(st.fullText, tts, st.utt),
                   !.fetches = st.fetches + 1]
    ELSE IF line.error # <<>> THEN
        [st EXCEPT !.content = TextContent(<<"Error: ">> \o line.error)]
    ELSE st

RECURSIVE ProcessLines(_, _, _)
ProcessLines(st, lines, tts) ==
    IF lines = <<>> \/ st.thrown THEN st
    ELSE ProcessLines(ProcessLine(st, Head(lines), tts), Tail(lines), tts)

\* --------------------------------------------------------------- sendMessage
\* History variables: a record of the frames a call has processed (not program
\* state): the concatenation of the Text deltas in arrival order, the shape of the
\* frame sequence so far, the locals as the first Error frame left them, whether a
\* malformed line was met, the number of Done frames acted on, the stream state
\* the well-formed lines alone lead to, the number of Done frames met, and the
\* deltas that had arrived when the last of them was met.
NoTrace ==
    [arrived |-> <<>>, shape |-> "texts", err |-> Null, bad |-> FALSE, dones |-> 0,
     clean |-> StreamState(<<>>, Html(<<>>), Null, 0),
     doneFrames |-> 0, said |-> Null]

TraceLine(g, line, before, after, tts) ==
    [arrived |-> IF IsTextFrame(line) THEN g.arrived \o line.text ELSE g.arrived,
     shape |->
        IF ~line.prefix \/ ~line.valid THEN g.shape
        ELSE IF IsTextFrame(line) /\ g.shape = "texts" THEN "texts"
        ELSE IF IsDoneFrame(line) /\ g.shape = "texts" THEN "textsDone"
        ELSE "other",
     err |->
        IF IsErrorFrame(line) /\ g.err = Null
        THEN <<after.fullText, after.content>> ELSE g.err,
     bad |-> (g.bad \/ IsMalformed(line)),
     dones |-> g.dones + (after.fetches - before.fetches),
     clean |-> IF IsMalformed(line) THEN g.clean ELSE ProcessLine(g.clean, line, tts),
     doneFrames |-> g.doneFrames + (IF IsDoneFrame(line) THEN 1 ELSE 0),
     said |-> IF IsDoneFrame(line) THEN <<g.arrived>> ELSE g.said]

RECURSIVE TraceLines(_, _, _, _)
TraceLines(g, st, lines, tts) ==
    IF lines = <<>> \/ st.thrown THEN g
    ELSE LET after == ProcessLine(st, Head(lines), tts)
         IN TraceLines(TraceLine(g, Head(lines), st, after, tts), after, Tail(lines), tts)

NewSend(message, sid) ==
    [pc |-> "fetch", outcome |-> "", error |-> "", message |-> message, session |-> sid,
     fullText |-> <<>>, content |-> Html(<<>>), frames |-> 0, trace |-> NoTrace]

Pending(i) == i \in 1..Len(sends) /\ sends[i].pc # "done"
InFlight == {i \in 1..Len(sends) : sends[i].pc # "done"}

\* sendMessage showing the input as typed while the request carries the trimmed text
sendMessageShowsUntrimmed(value) ==
    LET message == Trim(value)
        i == Len(sends) + 1
    IN  IF message = <<>>
        THEN /\ inputValue' = value
             /\ UNCHANGED <<inputDisabled, sendDisabled, sends, chatMessages, emptyTimer>>
        ELSE /\ Len(sends) < MaxSends
             /\ emptyTimer' =
                    (emptyTimer \/ \E p \in 1..Len(chatMessages) : IsEmptyState(chatMessages[p]))
             /\ chatMessages' = chatMessages \o <<UserMessage(value, i), TypingDiv(i)>>
             /\ inputValue' = <<>>
             /\ inputDisabled' = TRUE
             /\ sendDisabled' = TRUE
             /\ sends' = Append(sends, NewSend(message, sessionId))

\* sendMessage without the test of the trimmed input
sendMessageAcceptsBlank(value) ==
    LET message == Trim(value)
        i == Len(sends) + 1
    IN  /\ Len(sends) < MaxSends
        /\ emptyTimer' =
               (emptyTimer \/ \E p \in 1..Len(chatMessages) : IsEmptyState(chatMessages[p]))
        /\ chatMessages' = chatMessages \o <<UserMessage(message, i), TypingDiv(i)>>
        /\ inputValue' = <<>>
        /\ inputDisabled' = TRUE
        /\ sendDisabled' = TRUE
        /\ sends' = Append(sends, NewSend(message, sessionId))

\* async function sendMessage(), up to its first await; value is
\* messageInput.value at the call
sendMessage(value) ==
    LET message == Trim(value)
        i == Len(sends) + 1
    IN  IF message = <<>>
        THEN /\ inputValue' = value
             /\ UNCHANGED <<inputDisabled, sendDisabled, sends, chatMessages, emptyTimer>>
        ELSE /\ Len(sends) < MaxSends
             /\ emptyTimer' =
                    (emptyTimer \/ \E p \in 1..Len(chatMessages) : IsEmptyState(chatMessages[p]))
             /\ chatMessages' = chatMessages \o <<UserMessage(message, i), TypingDiv(i)>>
             /\ inputValue' = <<>>
             /\ inputDisabled' = TRUE
             /\ sendDisabled' = TRUE
             /\ sends' = Append(sends, NewSend(message, sessionId))

\* the user edits the input box
TypeInput(v) ==
    /\ ~inputDisabled
    /\ inputValue # v
    /\ inputValue' = v
    /\ UNCHANGED <<sessionId, clock, inputDisabled, sendDisabled, chatMessages, emptyTimer,
                   sends, listFetches, chatList, speechVars, deleteVars, loads, pageLoad,
                   layoutVars, restVars>>

\* sendButton 'click' listener
ClickSend ==
    /\ ~sendDisabled
    /\ ~modalShown
    /\ sendMessage(inputValue)
    /\ menuShown' = FALSE
    /\ UNCHANGED <<sessionId, clock, listFetches, chatList, speechVars,
                   currentChatToDelete, modalShown, deletes, alerts, loads, pageLoad, layoutVars, restVars>>

\* messageInput 'keypress' listener, Enter without Shift
PressEnter ==
    /\ ~inputDisabled
    /\ sendMessage(inputValue)
    /\ UNCHANGED <<sessionId, clock, listFetches, chatList, speechVars, deleteVars, loads, pageLoad,
                   layoutVars, restVars>>

\* sendSuggestion(text), the onclick of a chip of the empty state
sendSuggestion(text) ==
    /\ ~modalShown
    /\ \E p \in 1..Len(chatMessages) : chatMessages[p].k = "emptyChips"
    /\ sendMessage(text)
    /\ menuShown' = FALSE
    /\ UNCHANGED <<sessionId, clock, listFetches, chatList, speechVars,
                   currentChatToDelete, modalShown, deletes, alerts, loads, pageLoad, layoutVars, restVars>>

\* the setTimeout callback of sendMessage: emptyState.remove()
EmptyStateTimeout ==
    /\ emptyTimer
    /\ emptyTimer' = FALSE
    /\ chatMessages' = SelectSeq(chatMessages, LAMBDA n : ~IsEmptyState(n))
    /\ UNCHANGED <<sessionId, clock, sendVars, listFetches, chatList, speechVars,
                   deleteVars, loads, pageLoad, layoutVars, restVars>>

\* the catch block run twice for one failure: two error messages
CatchErrorTwice(i, error) ==
    /\ chatMessages' =
          Without(chatMessages, TypingDiv(i)) \o <<ErrorMessage(i), ErrorMessage(i)>>
    /\ sends' = [sends EXCEPT ![i].pc = "done", ![i].outcome = "failed", ![i].error = error]
    /\ inputDisabled' = FALSE
    /\ sendDisabled' = FALSE
    /\ UNCHANGED <<sessionId, clock, inputValue, emptyTimer, listFetches, chatList,
                   speechVars, deleteVars, loads, pageLoad, layoutVars, restVars>>

\* the catch block without the two statements after it: the controls stay off
CatchErrorKeepsDisabled(i, error) ==
    /\ chatMessages' = Without(chatMessages, TypingDiv(i)) \o <<ErrorMessage(i)>>
    /\ sends' = [sends EXCEPT ![i].pc = "done", ![i].outcome = "failed", ![i].error = error]
    /\ UNCHANGED <<sessionId, clock, inputValue, inputDisabled, sendDisabled, emptyTimer,
                   listFetches, chatList, speechVars, deleteVars, loads, pageLoad, layoutVars, restVars>>

\* the catch block of sendMessage and the two statements after it
CatchError(i, error) ==
    /\ chatMessages' = Without(chatMessages, TypingDiv(i)) \o <<ErrorMessage(i)>>
    /\ sends' = [sends EXCEPT ![i].pc = "done", ![i].outcome = "failed", ![i].error = error]
    /\ inputDisabled' = FALSE
    /\ sendDisabled' = FALSE
    /\ UNCHANGED <<sessionId, clock, inputValue, emptyTimer, listFetches, chatList,
                   speechVars, deleteVars, loads, pageLoad, layoutVars, restVars>>

\* fetch('/chat/stream') rejects
FetchReject(i) ==
    /\ Pending(i) /\ sends[i].pc = "fetch"
    /\ CatchError(i, "fetch rejected")

\* the response arrives with a status that is not ok
FetchNotOk(i) ==
    /\ Pending(i) /\ sends[i].pc = "fetch"
    /\ CatchError(i, "Network response was not ok")

\* the response arrives ok: the typing indicator goes, the bot message div is appended
FetchOk(i) ==
    /\ Pending(i) /\ sends[i].pc = "fetch"
    /\ chatMessages' = Without(chatMessages, TypingDiv(i)) \o <<MessageDiv(i)>>
    /\ sends' = [sends EXCEPT ![i].pc = "read"]
    /\ UNCHANGED <<sessionId, clock, inputValue, inputDisabled, sendDisabled, emptyTimer,
                   listFetches, chatList, speechVars, deleteVars, loads, pageLoad, layoutVars, restVars>>

\* the loop body for the value of one read: every line of the chunk is processed
ReadLines(i, chunk) ==
    /\ Pending(i) /\ sends[i].pc = "read"
    /\ sends[i].frames + Len(chunk) <= MaxFrames
    /\ LET before == StreamState(sends[i].fullText, sends[i].content, utterance, listFetches)
           after == ProcessLines(before, chunk, isTTSEnabled)
           traced == TraceLines(sends[i].trace, before, chunk, isTTSEnabled)
       IN  /\ after.fetches <= MaxListFetches
           /\ utterance' = after.utt
           /\ listFetches' = after.fetches
           /\ IF after.thrown
              THEN /\ chatMessages' = Without(chatMessages, TypingDiv(i)) \o <<ErrorMessage(i)>>
                   /\ sends' = [sends EXCEPT ![i].fullText = after.fullText,
                                             ![i].content = after.content,
                                             ![i].frames = @ + Len(chunk),
                                             ![i].trace = traced,
                                             ![i].pc = "done",
                                             ![i].outcome = "failed",
                                             ![i].error = "thrown by a line"]
                   /\ inputDisabled' = FALSE
                   /\ sendDisabled' = FALSE
              ELSE /\ sends' = [sends EXCEPT ![i].fullText = after.fullText,
                                             ![i].content = after.content,
                                             ![i].frames = @ + Len(chunk),
                                             ![i].trace = traced]
                   /\ UNCHANGED <<inputDisabled, sendDisabled, chatMessages>>
    /\ UNCHANGED <<sessionId, clock, inputValue, emptyTimer, chatList, isTTSEnabled,
                   deleteVars, loads, pageLoad, layoutVars, theme, localStorage,
                   streamNearBottom>>

\* reader.read() resolves with a chunk, given as its lines
ReadChunk(i, chunk) ==
    /\ ReadLines(i, chunk)
    /\ UNCHANGED wire

\* reader.read() resolves with done: the loop ends, the controls are re-enabled
ReadDone(i) ==
    /\ Pending(i) /\ sends[i].pc = "read"
    /\ sends' = [sends EXCEPT ![i].pc = "done", ![i].outcome = "completed"]
    /\ inputDisabled' = FALSE
    /\ sendDisabled' = FALSE
    /\ UNCHANGED <<sessionId, clock, inputValue, chatMessages, emptyTimer, listFetches,
                   chatList, speechVars, deleteVars, loads, pageLoad, layoutVars, restVars>>

\* reader.read() rejects
ReadFail(i) ==
    /\ Pending(i) /\ sends[i].pc = "read"
    /\ CatchError(i, "read rejected")

\* ------------------------------------------------------------ the sidebar
Row(id, active) == [id |-> id, active |-> active]

\* the bodies GET /history/sessions can answer with (ids unique within one list)
SessionLists ==
    {<<>>} \cup {<<a>> : a \in SrvIds}
        \cup {l \in SrvIds \X SrvIds : l[1] # l[2]}

\* loadChatHistory() after its fetch resolved with the list `sessions`
RenderList(sessions, active) ==
    [p \in 1..Len(sessions) |-> Row(sessions[p], sessions[p] = active)]

\* document.querySelectorAll('.chat-item').forEach(item => item.classList.remove('active'))
ClearActive(rows) == [p \in 1..Len(rows) |-> Row(rows[p].id, FALSE)]

\* the forEach at the end of loadChat(chatSessionId)
MarkActive(rows, chatSessionId) ==
    [p \in 1..Len(rows) |-> Row(rows[p].id, rows[p].id = chatSessionId)]

HasRow(id) == \E p \in 1..Len(chatList) : chatList[p].id = id

\* loadChatHistory() appending the rows of a response to the rows it finds
ListOkAppends(sessions) ==
    /\ listFetches > 0
    /\ listFetches' = listFetches - 1
    /\ chatList' = chatList \o RenderList(sessions, sessionId)
    /\ UNCHANGED <<sessionId, clock, sendVars, chatMessages, emptyTimer, speechVars,
                   deleteVars, loads, pageLoad, layoutVars, restVars>>

\* a GET /history/sessions issued by loadChatHistory() is answered
ListOk(sessions) ==
    /\ listFetches > 0
    /\ listFetches' = listFetches - 1
    /\ chatList' = RenderList(sessions, sessionId)
    /\ UNCHANGED <<sessionId, clock, sendVars, chatMessages, emptyTimer, speechVars,
                   deleteVars, loads, pageLoad, layoutVars, restVars>>

\* the catch block of loadChatHistory without chatList.innerHTML = ''
ListFailKeepsList ==
    /\ listFetches > 0
    /\ listFetches' = listFetches - 1
    /\ UNCHANGED <<sessionId, clock, sendVars, chatMessages, emptyTimer, chatList,
                   speechVars, deleteVars, loads, pageLoad, layoutVars, restVars>>

\* the fetch or response.json() of loadChatHistory() rejects
ListFail ==
    /\ listFetches > 0
    /\ listFetches' = listFetches - 1
    /\ chatList' = <<>>
    /\ UNCHANGED <<sessionId, clock, sendVars, chatMessages, emptyTimer, speechVars,
                   deleteVars, loads, pageLoad, layoutVars, restVars>>

\* function startNewChat()
startNewChat ==
    /\ clock < MaxNewChats
    /\ listFetches < MaxListFetches
    /\ clock' = clock + 1
    /\ sessionId' = GenId(clock + 1)
    /\ chatMessages' = <<EmptyState(TRUE)>>
    /\ emptyTimer' = FALSE
    /\ chatList' = ClearActive(chatList)
    /\ listFetches' = listFetches + 1

\* newChatBtn 'click' listener (stops propagation)
ClickNewChat ==
    /\ ~modalShown
    /\ startNewChat
    /\ UNCHANGED <<sendVars, speechVars, deleteVars, loads, pageLoad, layoutVars, restVars>>

\* ----------------------------------------------------------------- loadChat
HistoryMessage(role, text, sid) ==
    Node("msg", role,
         IF role = "bot" THEN Html(Marked(text)) ELSE TextContent(text),
         <<"hist", sid>>)

\* the bodies GET /history?session_id=sid can answer with
Histories(sid) ==
    {<<>>, <<HistoryMessage("user", <<"h">>, sid), HistoryMessage("bot", <<"r">>, sid)>>}

\* a row's 'click' listener: loadChat(id) up to its await
ClickRow(id) ==
    /\ ~modalShown
    /\ HasRow(id)
    /\ Len(loads) < MaxLoads
    /\ sessionId' = id
    /\ chatMessages' = <<>>
    /\ emptyTimer' = FALSE
    /\ loads' = Append(loads, [id |-> id, pc |-> "fetch"])
    /\ UNCHANGED <<clock, sendVars, listFetches, chatList, speechVars, deleteVars, pageLoad, layoutVars, restVars>>

\* loadChat: the history arrives
LoadChatOk(j, history) ==
    /\ j \in 1..Len(loads) /\ loads[j].pc = "fetch"
    /\ history \in Histories(loads[j].id)
    /\ chatMessages' =
          IF history # <<>> THEN chatMessages \o history ELSE <<EmptyState(FALSE)>>
    /\ emptyTimer' = (emptyTimer /\ history # <<>>)
    /\ chatList' = MarkActive(chatList, loads[j].id)
    /\ loads' = [loads EXCEPT ![j].pc = "done"]
    /\ UNCHANGED <<sessionId, clock, sendVars, listFetches, speechVars, deleteVars,
                   pageLoad, layoutVars, restVars>>

\* loadChat: the fetch or response.json() rejects
LoadChatFail(j) ==
    /\ j \in 1..Len(loads) /\ loads[j].pc = "fetch"
    /\ chatList' = MarkActive(chatList, loads[j].id)
    /\ loads' = [loads EXCEPT ![j].pc = "done"]
    /\ UNCHANGED <<sessionId, clock, sendVars, chatMessages, emptyTimer, listFetches,
                   speechVars, deleteVars, pageLoad, layoutVars, restVars>>

\* ------------------------------------------------- the 'load' listener
\* loadHistory() of the page load: the history of the initial session arrives;
\* then() goes on to loadChatHistory()
LoadHistoryOk(history) ==
    /\ pageLoad = "history"
    /\ chatMessages' =
          IF history # <<>>
          THEN SelectSeq(chatMessages, LAMBDA n : ~IsEmptyState(n)) \o history
          ELSE chatMessages
    /\ pageLoad' = "sessions"
    /\ UNCHANGED <<sessionId, clock, sendVars, emptyTimer, listFetches, chatList,
                   speechVars, deleteVars, loads, layoutVars, restVars>>

\* loadHistory() of the page load: its fetch or response.json() rejects
LoadHistoryFail ==
    /\ pageLoad = "history"
    /\ pageLoad' = "sessions"
    /\ UNCHANGED <<sessionId, clock, sendVars, chatMessages, emptyTimer, listFetches,
                   chatList, speechVars, deleteVars, loads, layoutVars, restVars>>

\* loadChatHistory() of the page load is answered; then() removes the indicator
PageSessionsOk(sessions) ==
    /\ pageLoad = "sessions"
    /\ chatList' = RenderList(sessions, sessionId)
    /\ chatMessages' = Without(chatMessages, LoadingIndicator)
    /\ pageLoad' = "done"
    /\ UNCHANGED <<sessionId, clock, sendVars, emptyTimer, listFetches, speechVars,
                   deleteVars, loads, layoutVars, restVars>>

\* loadChatHistory() of the page load: its fetch or response.json() rejects
PageSessionsFail ==
    /\ pageLoad = "sessions"
    /\ chatList' = <<>>
    /\ chatMessages' = Without(chatMessages, LoadingIndicator)
    /\ pageLoad' = "done"
    /\ UNCHANGED <<sessionId, clock, sendVars, emptyTimer, listFetches, speechVars,
                   deleteVars, loads, layoutVars, restVars>>

\* ------------------------------------------------------------------ delete
\* showContextMenu(event, chatId), the onclick of a row's menu button
showContextMenu(chatId) ==
    /\ ~modalShown
    /\ HasRow(chatId)
    /\ currentChatToDelete' = chatId
    /\ menuShown' = TRUE
    /\ UNCHANGED <<sessionId, clock, sendVars, chatMessages, emptyTimer, listFetches,
                   chatList, speechVars, modalShown, deletes, alerts, loads, pageLoad, layoutVars, restVars>>

\* showDeleteConfirmation(), the delete entry of the context menu
showDeleteConfirmation ==
    /\ menuShown
    /\ menuShown' = FALSE
    /\ modalShown' = (modalShown \/ currentChatToDelete # Null)
    /\ UNCHANGED <<sessionId, clock, sendVars, chatMessages, emptyTimer, listFetches,
                   chatList, speechVars, currentChatToDelete, deletes, alerts, loads, pageLoad,
                   layoutVars, restVars>>

\* cancelDelete(), the cancel button of the modal
cancelDelete ==
    /\ modalShown
    /\ modalShown' = FALSE
    /\ menuShown' = FALSE
    /\ currentChatToDelete' = Null
    /\ UNCHANGED <<sessionId, clock, sendVars, chatMessages, emptyTimer, listFetches,
                   chatList, speechVars, deletes, alerts, loads, pageLoad, layoutVars, restVars>>

\* confirmDelete sending the active session instead of the session the modal is for
confirmDeleteSendsActive ==
    /\ modalShown
    /\ modalShown' = FALSE
    /\ menuShown' = FALSE
    /\ IF currentChatToDelete = Null
       THEN UNCHANGED deletes
       ELSE /\ Len(deletes) < MaxDeletes
            /\ deletes' = Append(deletes, [sent |-> sessionId, pc |-> "fetch"])
    /\ UNCHANGED <<sessionId, clock, sendVars, chatMessages, emptyTimer, listFetches,
                   chatList, speechVars, currentChatToDelete, alerts, loads, pageLoad, layoutVars, restVars>>

\* confirmDelete(), the confirm button of the modal: deleteChat() up to its await
confirmDelete ==
    /\ modalShown
    /\ modalShown' = FALSE
    /\ menuShown' = FALSE
    /\ IF currentChatToDelete = Null
       THEN UNCHANGED deletes
       ELSE /\ Len(deletes) < MaxDeletes
            /\ deletes' = Append(deletes, [sent |-> currentChatToDelete, pc |-> "fetch"])
    /\ UNCHANGED <<sessionId, clock, sendVars, chatMessages, emptyTimer, listFetches,
                   chatList, speechVars, currentChatToDelete, alerts, loads, pageLoad, layoutVars, restVars>>

\* deleteChat: POST /history/clear is answered with an ok status
DeleteOk(d) ==
    /\ d \in 1..Len(deletes) /\ deletes[d].pc = "fetch"
    /\ IF currentChatToDelete = sessionId
       THEN startNewChat
       ELSE /\ listFetches < MaxListFetches
            /\ listFetches' = listFetches + 1
            /\ UNCHANGED <<sessionId, clock, chatMessages, emptyTimer, chatList>>
    /\ currentChatToDelete' = Null
    /\ deletes' = [deletes EXCEPT ![d].pc = "ok"]
    /\ UNCHANGED <<sendVars, speechVars, menuShown, modalShown, alerts, loads, pageLoad, layoutVars, restVars>>

\* the failure path of deleteChat refreshing the list as the success path does
DeleteFailedRefreshes(d) ==
    /\ alerts' = alerts + 1
    /\ currentChatToDelete' = Null
    /\ deletes' = [deletes EXCEPT ![d].pc = "failed"]
    /\ listFetches < MaxListFetches
    /\ listFetches' = listFetches + 1
    /\ UNCHANGED <<sessionId, clock, sendVars, chatMessages, emptyTimer,
                   chatList, speechVars, menuShown, modalShown, loads, pageLoad, layoutVars, restVars>>

\* the else branch and the catch block of deleteChat, and its last statement
DeleteFailed(d) ==
    /\ alerts' = alerts + 1
    /\ currentChatToDelete' = Null
    /\ deletes' = [deletes EXCEPT ![d].pc = "failed"]
    /\ UNCHANGED <<sessionId, clock, sendVars, chatMessages, emptyTimer, listFetches,
                   chatList, speechVars, menuShown, modalShown, loads, pageLoad, layoutVars, restVars>>

\* deleteChat: POST /history/clear is answered with a status that is not ok
DeleteNotOk(d) ==
    /\ d \in 1..Len(deletes) /\ deletes[d].pc = "fetch"
    /\ DeleteFailed(d)

\* deleteChat: the fetch rejects
DeleteReject(d) ==
    /\ d \in 1..Len(deletes) /\ deletes[d].pc = "fetch"
    /\ DeleteFailed(d)

\* document 'click' listener, for a click outside the menu and the menu buttons
ClickOutside ==
    /\ menuShown
    /\ menuShown' = FALSE
    /\ UNCHANGED <<sessionId, clock, sendVars, chatMessages, emptyTimer, listFetches,
                   chatList, speechVars, currentChatToDelete, modalShown, deletes,
                   alerts, loads, pageLoad, layoutVars, restVars>>

\* ------------------------------------------------------------------ scroll
\* function isNearBottom()
isNearBottom(v) == v.scrollTop + v.clientHeight >= ScrollHeight(v) - NearThreshold

\* function scrollToBottomIfNear()
scrollToBottomIfNear(v) ==
    IF isNearBottom(v) THEN SetScrollTop(v, ScrollHeight(v)) ELSE v

\* the viewport after addMessage appended a message h px high: the position is
\* read before the append, scrollToBottomIfNear() reads it again after it
AddedMessage(v, h) ==
    LET wasNearBottom == isNearBottom(v)
        appended == [v EXCEPT !.contentHeight = @ + h]
    IN  IF wasNearBottom THEN scrollToBottomIfNear(appended) ELSE appended

\* function addMessage(role, message); the message is laid out h px high
addMessage(role, message, h) ==
    /\ Len(chatMessages) <= MaxAppends
    /\ chatMessages' = Append(chatMessages, HistoryMessage(role, message, sessionId))
    /\ viewport' = AddedMessage(viewport, h)
    /\ UNCHANGED <<sessionId, clock, sendVars, emptyTimer, listFetches, chatList, speechVars,
                   deleteVars, loads, pageLoad, suggestionPool, suggestions, restVars>>

\* the user scrolls the transcript to the offset t
UserScroll(t) ==
    /\ t \in 0..(ScrollHeight(viewport) - viewport.clientHeight)
    /\ t # viewport.scrollTop
    /\ viewport' = SetScrollTop(viewport, t)
    /\ UNCHANGED <<sessionId, clock, sendVars, chatMessages, emptyTimer, listFetches,
                   chatList, speechVars, deleteVars, loads, pageLoad, suggestionPool,
                   suggestions, restVars>>

\* The scroll statements of a streaming sendMessage call, lines 245-274.
\* chatMessages.appendChild(messageDiv), h px high while empty, and
\* const wasNearBottom = isNearBottom(), read once for the whole stream
AppendMessageDiv(h) ==
    /\ streamNearBottom = Null
    /\ LET appended == [viewport EXCEPT !.contentHeight = @ + h]
       IN  /\ viewport' = appended
           /\ streamNearBottom' = [wasNearBottom |-> isNearBottom(appended), frames |-> 0]
    /\ UNCHANGED <<sessionId, clock, sendVars, chatMessages, emptyTimer, listFetches,
                   chatList, speechVars, deleteVars, loads, pageLoad, suggestionPool,
                   suggestions, theme, localStorage, wire>>

\* a Text frame: messageDiv.innerHTML = marked.parse(fullText) makes the message
\* h px higher; if (wasNearBottom) chatMessages.scrollTop = chatMessages.scrollHeight
RenderText(h) ==
    /\ streamNearBottom # Null
    /\ streamNearBottom.frames < MaxFrames
    /\ LET rendered == [viewport EXCEPT !.contentHeight = @ + h]
       IN  viewport' = IF streamNearBottom.wasNearBottom
                       THEN SetScrollTop(rendered, ScrollHeight(rendered))
                       ELSE rendered
    /\ streamNearBottom' = [streamNearBottom EXCEPT !.frames = @ + 1]
    /\ UNCHANGED <<sessionId, clock, sendVars, chatMessages, emptyTimer, listFetches,
                   chatList, speechVars, deleteVars, loads, pageLoad, suggestionPool,
                   suggestions, theme, localStorage, wire>>

\* ------------------------------------------------------ getRandomSuggestions
\* getRandomSuggestions with a shuffle that can repeat an entry
getRandomSuggestionsRepeats(pool, count, order) ==
    [p \in 1..count |-> pool[order[1]]]

\* function getRandomSuggestions(count): the copy of the pool in the order the
\* sort left it, cut to its first count entries
getRandomSuggestions(pool, count, order) ==
    LET shuffled == [p \in 1..Len(pool) |-> pool[order[p]]]
    IN  SubSeq(shuffled, 1, count)

\* a call getRandomSuggestions(count); [...suggestionPool] is sorted, not the pool
CallGetRandomSuggestions(count, order) ==
    /\ suggestions' =
          [count |-> count, value |-> getRandomSuggestions(suggestionPool, count, order)]
    /\ suggestionPool' = suggestionPool
    /\ UNCHANGED <<sessionId, clock, sendVars, chatMessages, emptyTimer, listFetches,
                   chatList, speechVars, deleteVars, loads, pageLoad, viewport, restVars>>

\* ----------------------------------------------------------- specifications
\* what every specification has: the page load and the session-list responses
NextPage(lists, histories) ==
    \/ \E h \in histories : LoadHistoryOk(h)
    \/ LoadHistoryFail
    \/ \E l \in lists : PageSessionsOk(l)
    \/ PageSessionsFail
    \/ \E l \in lists : ListOk(l)
    \/ ListFail

\* The stream consumer: the user sends one message with the input box and the
\* send button or the Enter key; the response body arrives in chunks of any lines.
NextStream ==
    \/ NextPage({<<>>}, {<<>>})
    \/ \E v \in InputValues : TypeInput(v)
    \/ sends = <<>> /\ ClickSend
    \/ sends = <<>> /\ PressEnter
    \/ EmptyStateTimeout
    \/ \E i \in DOMAIN sends : FetchReject(i)
    \/ \E i \in DOMAIN sends : FetchNotOk(i)
    \/ \E i \in DOMAIN sends : FetchOk(i)
    \/ \E i \in DOMAIN sends : \E c \in ChunksUpTo(MaxFrames) : ReadChunk(i, c)
    \/ \E i \in DOMAIN sends : ReadDone(i)
    \/ \E i \in DOMAIN sends : ReadFail(i)

SpecStream == Init /\ [][NextStream]_vars

\* Sending, on the loaded page: every way the page offers to send a message (send
\* button, Enter key, suggestion chips) and the new-chat button.  The servers'
\* response bodies are empty here (their frames are SpecStream's subject): a
\* request ends by the fetch rejecting, a status that is not ok, the stream
\* ending, or a read rejecting.  The user starts a new chat once.
NextSend ==
    \/ \E l \in {<<>>} : ListOk(l)
    \/ ListFail
    \/ \E v \in InputValues : TypeInput(v)
    \/ ClickSend
    \/ PressEnter
    \/ \E t \in SuggestionTexts : sendSuggestion(t)
    \/ EmptyStateTimeout
    \/ clock = 0 /\ ClickNewChat
    \/ \E i \in DOMAIN sends : FetchReject(i)
    \/ \E i \in DOMAIN sends : FetchNotOk(i)
    \/ \E i \in DOMAIN sends : FetchOk(i)
    \/ \E i \in DOMAIN sends : ReadDone(i)
    \/ \E i \in DOMAIN sends : ReadFail(i)

SpecSend == Loaded /\ [][NextSend]_vars

\* every fetch of a send settles, and every response stream ends or fails
FairSend ==
    /\ SpecSend
    /\ \A i \in 1..MaxSends :
          /\ WF_vars(FetchReject(i) \/ FetchNotOk(i) \/ FetchOk(i))
          /\ WF_vars(ReadDone(i) \/ ReadFail(i))

\* Sessions: the sidebar, deletion, and the user switching session once and
\* starting a new chat once.
NextDelete ==
    \/ NextPage(SessionLists, Histories(GenId(0)))
    \/ clock = 0 /\ ClickNewChat
    \/ \E id \in SrvIds : loads = <<>> /\ ClickRow(id)
    \/ \E j \in DOMAIN loads : \E h \in Histories(loads[j].id) : LoadChatOk(j, h)
    \/ \E j \in DOMAIN loads : LoadChatFail(j)
    \/ \E id \in SrvIds : showContextMenu(id)
    \/ showDeleteConfirmation
    \/ cancelDelete
    \/ confirmDelete
    \/ \E d \in DOMAIN deletes : DeleteOk(d)
    \/ \E d \in DOMAIN deletes : DeleteNotOk(d)
    \/ \E d \in DOMAIN deletes : DeleteReject(d)
    \/ ClickOutside

SpecDelete == Init /\ [][NextDelete]_vars

\* Switching session: the page loads with two sessions in the sidebar and the
\* user clicks rows, also while an earlier loadChat awaits its history.
TwoSessions == {l \in SessionLists : Len(l) = 2}

NextSwitch ==
    \/ \E h \in Histories(GenId(0)) : LoadHistoryOk(h)
    \/ LoadHistoryFail
    \/ \E l \in TwoSessions : PageSessionsOk(l)
    \/ PageSessionsFail
    \/ \E id \in SrvIds : ClickRow(id)
    \/ \E j \in DOMAIN loads : \E h \in Histories(loads[j].id) : LoadChatOk(j, h)
    \/ \E j \in DOMAIN loads : LoadChatFail(j)

SpecSwitch == Init /\ [][NextSwitch]_vars

\* A send and a session switch together: the user sends one message and clicks
\* the row of the sidebar once, in either order and at any moment; the response
\* body arrives in chunks of one frame.
OneFrameChunks == {<<TextFrame(<<"a">>)>>, <<ErrorFrame(<<"e">>)>>}

NextMixed ==
    \/ \E h \in {<<>>} : LoadHistoryOk(h)
    \/ LoadHistoryFail
    \/ \E l \in {l \in SessionLists : Len(l) = 1} : PageSessionsOk(l)
    \/ PageSessionsFail
    \/ \E v \in InputValues : TypeInput(v)
    \/ sends = <<>> /\ ClickSend
    \/ EmptyStateTimeout
    \/ \E i \in DOMAIN sends : FetchOk(i)
    \/ \E i \in DOMAIN sends : \E c \in OneFrameChunks : ReadChunk(i, c)
    \/ \E i \in DOMAIN sends : ReadDone(i)
    \/ \E id \in SrvIds : loads = <<>> /\ ClickRow(id)
    \/ \E j \in DOMAIN loads : \E h \in Histories(loads[j].id) : LoadChatOk(j, h)
    \/ \E j \in DOMAIN loads : LoadChatFail(j)

SpecMixed == Init /\ [][NextMixed]_vars

\* The transcript's scroll position: messages of either height are appended, a
\* reply streams in and grows frame by frame, and the user scrolls anywhere in
\* between.
NextScroll ==
    \/ \E role \in {"user", "bot"} : \E h \in MessageHeights : addMessage(role, <<"h">>, h)
    \/ \E t \in 0..(MaxAppends + 1) * ClientHeight : UserScroll(t)
    \/ \E h \in {0} \cup MessageHeights : AppendMessageDiv(h)
    \/ \E h \in MessageHeights : RenderText(h)

SpecScroll == Loaded /\ [][NextScroll]_vars

\* getRandomSuggestions called with every count up to the size of the pool and
\* every order the shuffle can produce.
NextSuggest ==
    \E count \in 0..PoolSize : \E order \in Shuffles(PoolSize) :
        CallGetRandomSuggestions(count, order)

SpecSuggest == Loaded /\ [][NextSuggest]_vars

\* ---------------------------------------------- theme, text-to-speech, reload
MaxReloads == 1

\* String(value) of a boolean: what setItem stores for it
String(value) == IF value THEN "true" ELSE "false"

\* localStorage.setItem(key, value), with the value already a string; a stored
\* item is kept as <<string>>, an absent one is Null
setItem(items, key, value) == [items EXCEPT ![key] = <<value>>]

\* localStorage.getItem('theme') || 'light'
SavedTheme(items) == IF items.theme = Null THEN "light" ELSE items.theme[1]

\* isTTSEnabled after lines 86-91: savedTTS === 'true' unless nothing is stored
SavedTTS(items) == IF items.tts # Null THEN items.tts[1] = "true" ELSE TRUE

\* toggleTheme that switches the attribute without storing it
toggleThemeNotStored ==
    /\ theme' = IF theme = "light" THEN "dark" ELSE "light"
    /\ UNCHANGED <<sessionId, clock, sendVars, chatMessages, emptyTimer, listFetches,
                   chatList, speechVars, deleteVars, loads, pageLoad, layoutVars,
                   localStorage, wire, streamNearBottom>>

\* function toggleTheme()
toggleTheme ==
    /\ LET currentTheme == theme
           newTheme == IF currentTheme = "light" THEN "dark" ELSE "light"
       IN  /\ theme' = newTheme
           /\ localStorage' = setItem(localStorage, "theme", newTheme)
    /\ UNCHANGED <<sessionId, clock, sendVars, chatMessages, emptyTimer, listFetches,
                   chatList, speechVars, deleteVars, loads, pageLoad, layoutVars,
                   wire, streamNearBottom>>

\* toggleTTS that leaves the utterances to speechSynthesis
toggleTTSNoCancel ==
    /\ isTTSEnabled' = ~isTTSEnabled
    /\ localStorage' = setItem(localStorage, "tts", String(isTTSEnabled'))
    /\ UNCHANGED <<sessionId, clock, sendVars, chatMessages, emptyTimer, listFetches,
                   chatList, utterance, deleteVars, loads, pageLoad, layoutVars, theme,
                   wire, streamNearBottom>>

\* function toggleTTS()
toggleTTS ==
    /\ isTTSEnabled' = ~isTTSEnabled
    /\ localStorage' = setItem(localStorage, "tts", String(isTTSEnabled'))
    /\ utterance' = IF ~isTTSEnabled' THEN Null ELSE utterance
    /\ UNCHANGED <<sessionId, clock, sendVars, chatMessages, emptyTimer, listFetches,
                   chatList, deleteVars, loads, pageLoad, layoutVars, theme,
                   wire, streamNearBottom>>

\* speechSynthesis finishes the utterance it is speaking
UtteranceEnd ==
    /\ utterance # Null
    /\ utterance' = Tail(utterance)
    /\ UNCHANGED <<sessionId, clock, sendVars, chatMessages, emptyTimer, listFetches,
                   chatList, isTTSEnabled, deleteVars, loads, pageLoad, layoutVars,
                   restVars>>

\* The user reloads the page: the script runs again from its first line, with a
\* sessionId of the new Date.now(), the theme and isTTSEnabled of the stored
\* items, and the 'load' listener.  The requests of the page that is left are
\* dropped; whether speechSynthesis goes on with the utterance of the page that
\* is left is up to the browser.
Reload ==
    /\ clock < MaxReloads
    /\ clock' = clock + 1
    /\ sessionId' = GenId(clock + 1)
    /\ theme' = SavedTheme(localStorage)
    /\ isTTSEnabled' = SavedTTS(localStorage)
    /\ utterance' \in {Null, utterance}
    /\ inputValue' = <<>>
    /\ inputDisabled' = FALSE
    /\ sendDisabled' = FALSE
    /\ chatMessages' = <<EmptyState(FALSE), LoadingIndicator>>
    /\ emptyTimer' = FALSE
    /\ sends' = <<>>
    /\ listFetches' = 0
    /\ chatList' = <<>>
    /\ currentChatToDelete' = Null
    /\ menuShown' = FALSE
    /\ modalShown' = FALSE
    /\ deletes' = <<>>
    /\ alerts' = 0
    /\ loads' = <<>>
    /\ pageLoad' = "history"
    /\ viewport' = Viewport(0, ClientHeight, 0)
    /\ suggestions' = Null
    /\ wire' = Null
    /\ streamNearBottom' = Null
    /\ UNCHANGED <<suggestionPool, localStorage>>

\* Preferences and speech: the user toggles the theme and text-to-speech, sends
\* one message per page, and reloads the page; a response is Text and Done frames.
SpokenChunks == {<<TextFrame(<<"a">>)>>, <<DoneFrame>>}

NextPrefs ==
    \/ NextPage({<<>>}, {<<>>})
    \/ TypeInput(<<" ", "h", " ">>)
    \/ sends = <<>> /\ ClickSend
    \/ \E i \in DOMAIN sends : FetchOk(i)
    \/ \E i \in DOMAIN sends : \E c \in SpokenChunks : ReadChunk(i, c)
    \/ \E i \in DOMAIN sends : ReadDone(i)
    \/ toggleTheme
    \/ toggleTTS
    \/ UtteranceEnd
    \/ Reload

SpecPrefs == Init /\ [][NextPrefs]_vars

\* ------------------------------------------------- the bytes of a response
\* A response body is a sequence of tokens: the two halves of the prefix 'data: ',
\* the braces, one key and one value of the JSON object, and the newline between
\* two lines.  A read delivers any run of them; it can end inside a line.
MaxWireFrames == 2

WireFrames == {TextFrame(<<"a">>), TextFrame(<<"b">>), DoneFrame}

JsonStrings ==
    {[token |-> "\"a\"", value |-> <<"a">>],
     [token |-> "\"b\"", value |-> <<"b">>],
     [token |-> "\"e\"", value |-> <<"e">>]}

\* the line the server writes for a frame: 'data: ' and the JSON of the frame
Encode(frame) ==
    <<"da", "ta: ", "{">>
    \o (IF IsDoneFrame(frame) THEN <<"\"done\":", "true">>
        ELSE IF IsErrorFrame(frame)
        THEN <<"\"error\":", (CHOOSE s \in JsonStrings : s.value = frame.error).token>>
        ELSE <<"\"text\":", (CHOOSE s \in JsonStrings : s.value = frame.text).token>>)
    \o <<"}">>

\* the body of a response: the lines of its frames, joined by newlines
RECURSIVE Body(_)
Body(frames) ==
    IF frames = <<>> THEN <<>>
    ELSE IF Len(frames) = 1 THEN Encode(frames[1])
    ELSE Encode(frames[1]) \o <<"\n">> \o Body(Tail(frames))

\* chunk.split('\n')
RECURSIVE Split(_)
Split(chunk) ==
    IF \A p \in 1..Len(chunk) : chunk[p] # "\n" THEN <<chunk>>
    ELSE LET p == CHOOSE x \in 1..Len(chunk) :
                      chunk[x] = "\n" /\ \A y \in 1..(x - 1) : chunk[y] # "\n"
         IN  <<SubSeq(chunk, 1, p - 1)>> \o Split(SubSeq(chunk, p + 1, Len(chunk)))

\* line.startsWith('data: ') and JSON.parse(line.slice(6)): what a line of a
\* chunk is to the loop body
ParseLine(line) ==
    IF Len(line) < 2 \/ line[1] # "da" \/ line[2] # "ta: " THEN Blank
    ELSE LET json == SubSeq(line, 3, Len(line))
             isObject == /\ Len(json) = 4
                         /\ json[1] = "{"
                         /\ json[4] = "}"
                         /\ \/ json[2] = "\"done\":" /\ json[3] = "true"
                            \/ /\ json[2] \in {"\"text\":", "\"error\":"}
                               /\ \E s \in JsonStrings : s.token = json[3]
         IN  IF ~isObject THEN Malformed
             ELSE IF json[2] = "\"done\":" THEN DoneFrame
             ELSE LET string == (CHOOSE s \in JsonStrings : s.token = json[3]).value
                  IN  IF json[2] = "\"text\":" THEN TextFrame(string)
                      ELSE ErrorFrame(string)

\* the lines of one read, as the loop body sees them
ParsedLines(chunk) ==
    LET lines == Split(chunk)
    IN  [p \in 1..Len(lines) |-> ParseLine(lines[p])]

\* the server answers the /chat request in flight with these frames
ServerResponds(frames) ==
    /\ wire = Null
    /\ \E i \in DOMAIN sends : sends[i].pc = "fetch"
    /\ wire' = [frames |-> frames, rest |-> Body(frames), cuts |-> {}]
    /\ UNCHANGED <<sessionId, clock, sendVars, chatMessages, emptyTimer, listFetches,
                   chatList, speechVars, deleteVars, loads, pageLoad, layoutVars,
                   theme, localStorage, streamNearBottom>>

\* a reader that hands out the rest of the body whole, wherever the network cut it
ReadWireWhole(i, n) ==
    /\ wire # Null
    /\ n \in 1..Len(wire.rest)
    /\ ReadLines(i, ParsedLines(wire.rest))
    /\ wire' = [wire EXCEPT
                   !.rest = <<>>,
                   !.cuts = IF n < Len(wire.rest)
                            THEN @ \cup {Len(Body(wire.frames)) - Len(wire.rest) + n}
                            ELSE @]

\* reader.read() resolves with the next n tokens of the body: decoder.decode,
\* chunk.split and the loop body; cuts keeps the positions where reads ended
\* inside the body
ReadWire(i, n) ==
    /\ wire # Null
    /\ n \in 1..Len(wire.rest)
    /\ ReadLines(i, ParsedLines(SubSeq(wire.rest, 1, n)))
    /\ wire' = [wire EXCEPT
                   !.rest = SubSeq(wire.rest, n + 1, Len(wire.rest)),
                   !.cuts = IF n < Len(wire.rest)
                            THEN @ \cup {Len(Body(wire.frames)) - Len(wire.rest) + n}
                            ELSE @]

\* reader.read() resolves with done when the body has been read
ReadWireDone(i) ==
    /\ wire # Null
    /\ wire.rest = <<>>
    /\ ReadDone(i)

\* The reads of a response: the user sends one message; the body of the response
\* is up to MaxWireFrames Text and Done frames, and every read ends anywhere in
\* what is left of it.
NextCut ==
    \/ \E n \in 1..MaxWireFrames : \E frames \in [1..n -> WireFrames] :
          ServerResponds(frames)
    \/ TypeInput(<<" ", "h", " ">>)
    \/ sends = <<>> /\ ClickSend
    \/ EmptyStateTimeout
    \/ \E i \in DOMAIN sends : wire # Null /\ FetchOk(i)
    \/ \E i \in DOMAIN sends : \E n \in 1..(7 * MaxWireFrames) : ReadWire(i, n)
    \/ \E i \in DOMAIN sends : ReadWireDone(i)
    \/ \E l \in {<<>>} : ListOk(l)

SpecCut == Loaded /\ [][NextCut]_vars

\* ================================================================== properties
Count(seq, n) == Cardinality({p \in 1..Len(seq) : seq[p] = n})
Enabled == ~inputDisabled /\ ~sendDisabled
Disabled == inputDisabled /\ sendDisabled
Finishing(i) == sends[i].pc # "done" /\ sends'[i].pc = "done"
Failing(i) == Finishing(i) /\ sends'[i].outcome = "failed"

\* C1: when a sendMessage call has finished and the frames it processed were
\* Text frames followed by one Done frame, the content of its bot message is the
\* markdown rendering of the concatenation of all the deltas in arrival order.
C1_RendersConcatenation ==
    \A i \in DOMAIN sends :
        sends[i].pc = "done" /\ sends[i].trace.shape = "textsDone"
            => sends[i].content = Html(Marked(sends[i].trace.arrived))

C1_Witness ==
    \E i \in DOMAIN sends :
        /\ sends[i].pc = "done" /\ sends[i].outcome = "completed"
        /\ sends[i].trace.shape = "textsDone"
        /\ sends[i].trace.arrived = <<"a", "b">>

\* C2: once an Error frame has been processed for a request, the accumulated
\* text and the content of the bot message are never changed again by the frames
\* that follow it, in the same read or in a later one.
C2_ErrorFrameIsTerminal ==
    \A i \in DOMAIN sends :
        sends[i].trace.err # Null
            => <<sends[i].fullText, sends[i].content>> = sends[i].trace.err

\* C9: a transport failure (fetch rejects, status not ok, a read rejects) ends the
\* request: the step shows exactly one synthetic error message for it, leaves the
\* locals as they were, issues no request and re-enables the controls; afterwards
\* nothing of the request changes and it never has a second error message.
C9_TransportFailureAborts ==
    [][\A i \in DOMAIN sends :
          /\ Failing(i) =>
                /\ Count(chatMessages', ErrorMessage(i)) = 1
                /\ Count(chatMessages, ErrorMessage(i)) = 0
                /\ Enabled'
                /\ Len(sends') = Len(sends)
                /\ sends'[i].fullText = sends[i].fullText
                /\ sends'[i].content = sends[i].content
                /\ sends'[i].frames = sends[i].frames
          /\ sends[i].pc = "done" /\ sends[i].outcome = "failed" =>
                /\ sends'[i] = sends[i]
                /\ Count(chatMessages', ErrorMessage(i)) <= 1]_vars

C9_Witness ==
    \E i \in DOMAIN sends :
        /\ sends[i].pc = "done" /\ sends[i].outcome = "failed"
        /\ sends[i].error = "read rejected"
        /\ sends[i].fullText = <<"a">>
        /\ Count(chatMessages, ErrorMessage(i)) = 1
        /\ Has(chatMessages, MessageDiv(i))
        /\ Enabled

\* C10: a line that starts with 'data: ' and fails JSON parsing is dropped: the
\* accumulated text, the content of the bot message and the Done effects are what
\* the well-formed lines alone produce, and the line does not put the request on
\* the error path.
C10_MalformedLineDropped ==
    \A i \in DOMAIN sends :
        sends[i].trace.bad =>
            /\ sends[i].fullText = sends[i].trace.clean.fullText
            /\ sends[i].content = sends[i].trace.clean.content
            /\ sends[i].trace.dones = sends[i].trace.clean.fetches
            /\ sends[i].error # "thrown by a line"

C10_Witness ==
    \E i \in DOMAIN sends :
        /\ sends[i].trace.bad
        /\ sends[i].pc = "done" /\ sends[i].outcome = "completed"
        /\ sends[i].fullText = <<"a">>
        /\ sends[i].trace.dones = 1

\* C3: at most one POST /chat/stream request is between its start and its
\* terminal state.
C3_AtMostOneSendInFlight == Cardinality(InFlight) <= 1

\* C5: whenever a send is in flight, messageInput and sendButton are disabled.
C5_DisabledWhileInFlight == InFlight # {} => Disabled

\* C6: the step that ends a send (stream ended, status not ok, fetch rejected,
\* read failed) leaves messageInput and sendButton enabled; and, fetches settling
\* and streams ending or failing, every accepted send reaches its end with the
\* controls enabled.
C6_TerminalReenables ==
    /\ [][\A i \in DOMAIN sends : Finishing(i) => Enabled']_vars
    /\ \A i \in 1..MaxSends :
          (i \in DOMAIN sends) ~> (i \in DOMAIN sends /\ sends[i].pc = "done" /\ Enabled)

C6_Witness ==
    /\ Len(sends) = 2
    /\ sends[1].pc = "done" /\ sends[1].outcome = "failed"
    /\ sends[2].pc = "done" /\ sends[2].outcome = "completed"
    /\ Enabled

\* C7: the step that accepts a send appends the user message, disables the
\* controls and issues the request, the user message and the request body carrying
\* the same trimmed text; the step that receives the response appends the bot
\* message of the request at the bottom, and it is never above the user message
\* it answers.
UserBeforeBot(list, i) ==
    \A p, q \in 1..Len(list) :
        list[p].own = <<"user", i>> /\ list[q] = MessageDiv(i) => p < q

C7_UserMessageThenRequestThenBot ==
    [][/\ Len(sends') > Len(sends) =>
            LET i == Len(sends')
                m == sends'[i].message
            IN  /\ Len(sends') = Len(sends) + 1
                /\ sends'[i].pc = "fetch"
                /\ Disabled'
                /\ m # <<>> /\ m = Trim(m)
                /\ m = Trim(inputValue) \/ m \in {Trim(t) : t \in SuggestionTexts}
                /\ Len(chatMessages') = Len(chatMessages) + 2
                /\ chatMessages'[Len(chatMessages) + 1] = UserMessage(m, i)
                /\ ~Has(chatMessages', MessageDiv(i))
       /\ \A i \in DOMAIN sends :
            /\ sends[i].pc = "fetch" /\ sends'[i].pc = "read" =>
                  /\ ~Has(chatMessages, MessageDiv(i))
                  /\ chatMessages'[Len(chatMessages')] = MessageDiv(i)
            /\ UserBeforeBot(chatMessages', i)]_vars

C7_Witness ==
    \E i \in DOMAIN sends :
        /\ sends[i].pc = "read"
        /\ sends[i].message = <<"h">>
        /\ Disabled
        /\ \E p, q \in 1..Len(chatMessages) :
              /\ p < q
              /\ chatMessages[p] = UserMessage(<<"h">>, i)
              /\ chatMessages[q] = MessageDiv(i)

\* C4: on every successful delete, if the id sent in the request is the active
\* session the result is a freshly generated sessionId and the empty state;
\* otherwise sessionId is unchanged.
C4_DeleteResetsActiveOnly ==
    [][\A d \in DOMAIN deletes :
          deletes[d].pc = "fetch" /\ deletes'[d].pc = "ok" =>
              IF deletes[d].sent = sessionId
              THEN /\ sessionId' # deletes[d].sent
                   /\ clock' > clock /\ sessionId' = GenId(clock')
                   /\ chatMessages' = <<EmptyState(TRUE)>>
              ELSE sessionId' = sessionId]_vars

\* C8: the step in which a confirmed delete fails (status not ok, or the fetch
\* rejects) shows one alert, sets currentChatToDelete to null, leaves the sidebar
\* list, sessionId and the transcript as they are, and issues no request: no
\* session-list fetch and no second delete.
C8_FailedDelete ==
    [][\A d \in DOMAIN deletes :
          deletes[d].pc = "fetch" /\ deletes'[d].pc = "failed" =>
              /\ alerts' = alerts + 1
              /\ currentChatToDelete' = Null
              /\ chatList' = chatList
              /\ listFetches' = listFetches /\ pageLoad' = pageLoad
              /\ sessionId' = sessionId
              /\ chatMessages' = chatMessages
              /\ Len(deletes') = Len(deletes)
              /\ \A e \in DOMAIN deletes : e # d => deletes'[e] = deletes[e]]_vars

C8_Witness ==
    \E d \in DOMAIN deletes :
        /\ deletes[d].pc = "failed"
        /\ alerts = 1
        /\ currentChatToDelete = Null
        /\ HasRow(deletes[d].sent)
        /\ sessionId = deletes[d].sent

\* C11: at most one sidebar row carries the 'active' styling, and a row that
\* carries it is the row of the current sessionId.
C11_ActiveRowIsSession ==
    /\ Cardinality({p \in 1..Len(chatList) : chatList[p].active}) <= 1
    /\ \A p \in 1..Len(chatList) : chatList[p].active => chatList[p].id = sessionId

\* C13: currentChatToDelete is non-null only while the context menu is open, the
\* confirmation is pending or a delete request is in flight.
C13_PendingDeletionScoped ==
    currentChatToDelete # Null =>
        menuShown \/ modalShown \/ \E d \in DOMAIN deletes : deletes[d].pc = "fetch"

Quiet ==
    /\ alerts' = alerts
    /\ sessionId' = sessionId
    /\ currentChatToDelete' = currentChatToDelete
    /\ inputDisabled' = inputDisabled
    /\ sendDisabled' = sendDisabled

C18_RegistryReadFailure ==
    [][/\ ListFail \/ PageSessionsFail => chatList' = <<>> /\ Quiet
       /\ LoadHistoryFail => chatMessages' = chatMessages /\ Quiet
       /\ \A j \in DOMAIN loads :
            LoadChatFail(j) =>
                /\ chatMessages' = chatMessages
                /\ \A p \in 1..Len(chatMessages') :
                      chatMessages'[p].own # <<"hist", loads[j].id>>
                /\ Quiet]_vars

C18_Witness ==
    \E j \in DOMAIN loads :
        /\ loads[j].pc = "done"
        /\ sessionId = loads[j].id
        /\ chatMessages = <<>>
        /\ chatList = <<>>
        /\ alerts = 0

\* C20: sessionId always holds an identifier, and it changes only in a step that
\* selects a session (loadChat), starts a new chat, or completes a successful
\* delete of the session that is active.
C20_SessionIdChangesByUserAction ==
    [][/\ sessionId' # Null
       /\ sessionId' # sessionId =>
            \/ Len(loads') > Len(loads) /\ sessionId' = loads'[Len(loads')].id
            \/ clock' > clock /\ deletes' = deletes /\ sessionId' = GenId(clock')
            \/ \E d \in DOMAIN deletes :
                  /\ deletes[d].pc = "fetch" /\ deletes'[d].pc = "ok"
                  /\ deletes[d].sent = sessionId
                  /\ sessionId' = GenId(clock')]_vars

\* C12: when a loadChat has run and no loadChat is pending, the transcript is the
\* ordered history returned for the active session, or the empty state, or empty.
C12_TranscriptOfActiveSession ==
    loads # <<>> /\ (\A j \in DOMAIN loads : loads[j].pc = "done") =>
        \/ chatMessages # <<>> /\ chatMessages \in Histories(sessionId)
        \/ chatMessages = <<EmptyState(FALSE)>>
        \/ chatMessages = <<>>

IsPrefix(s, t) == Len(s) <= Len(t) /\ SubSeq(t, 1, Len(s)) = s
LastBot(list, n) ==
    \E p \in 1..Len(list) :
        list[p] = n /\ \A q \in (p + 1)..Len(list) : list[q].role # "bot"

C19_OnlyLastBotMessageGrows ==
    [][/\ \A p \in 1..Len(chatMessages), q \in 1..Len(chatMessages') :
            /\ chatMessages[p].own # Null
            /\ chatMessages[p].own[1] \in {"user", "div", "err"}
            /\ chatMessages[p].own = chatMessages'[q].own
            => chatMessages'[q] = chatMessages[p]
       /\ \A i \in DOMAIN sends :
            /\ IsPrefix(sends[i].fullText, sends'[i].fullText)
            /\ sends'[i].content # sends[i].content =>
                  /\ sends[i].pc = "read"
                  /\ Has(chatMessages', MessageDiv(i)) =>
                        LastBot(chatMessages', MessageDiv(i))]_vars

\* C15: for every append of a message, the view is at the bottom after the
\* append if and only if it was within the threshold of the bottom before it;
\* when it was scrolled away scrollTop is unchanged.
AtBottom(v) == v.scrollTop = ScrollHeight(v) - v.clientHeight

C15_AutoScrollIffNearBottom ==
    [][Len(chatMessages') > Len(chatMessages) =>
          /\ AtBottom(viewport') <=> isNearBottom(viewport)
          /\ ~isNearBottom(viewport) => viewport'.scrollTop = viewport.scrollTop]_vars

\* C16: getRandomSuggestions(n) returns exactly n pairwise distinct entries of
\* suggestionPool, and the pool is as it was defined.
C16_DistinctSuggestions ==
    /\ suggestionPool = SuggestionPool
    /\ suggestions # Null =>
          /\ Len(suggestions.value) = suggestions.count
          /\ \A p \in 1..Len(suggestions.value) :
                \E q \in 1..Len(suggestionPool) : suggestions.value[p] = suggestionPool[q]
          /\ \A p, q \in 1..Len(suggestions.value) :
                suggestions.value[p] = suggestions.value[q] => p = q

C16_Witness ==
    /\ suggestions # Null
    /\ suggestions.count = 3
    /\ suggestions.value = <<SuggestionPool[4], SuggestionPool[1], SuggestionPool[5]>>

\* C21: a click outside the context menu and outside the rows' menu buttons
\* closes the context menu, and the document listener that closes it changes
\* neither sessionId, the transcript, the sidebar list, the pending deletion
\* nor the controls, and issues no request.
C21_ClickOutsideClosesMenu ==
    [][(ClickOutside \/ ClickNewChat \/ \E id \in SrvIds : ClickRow(id))
          => /\ ~menuShown'
             /\ ClickOutside =>
                   UNCHANGED <<sessionId, chatMessages, chatList, currentChatToDelete,
                               modalShown, sendVars, listFetches, deletes, loads>>]_vars

\* C22: speechSynthesis never holds more than one utterance, and it holds none
\* while isTTSEnabled is false: speak() cancels before it starts an utterance,
\* starts none while text-to-speech is off, and toggleTTS cancels when it
\* switches text-to-speech off.
C22_OneUtteranceNoneWhenDisabled ==
    /\ Len(utterance) <= 1
    /\ ~isTTSEnabled => utterance = Null

\* text-to-speech was switched off while the reply of a finished stream was
\* being spoken, and a Done frame has arrived since
C22_Witness ==
    /\ ~isTTSEnabled
    /\ utterance = Null
    /\ localStorage.tts = <<"false">>
    /\ \E i \in DOMAIN sends :
          /\ sends[i].trace.said = <<<<"a">>>>
          /\ sends[i].trace.doneFrames = 2

\* C23: isTTSEnabled and the data-theme attribute survive a reload: a reload
\* leaves both as they were before it, whatever toggleTTS and toggleTheme calls
\* came before; a toggleTheme call switches between the two themes, so two calls
\* restore the theme; and whatever is stored is the string of the value in memory.
C23_FlagsSurviveReload ==
    /\ [](/\ localStorage.tts # Null => localStorage.tts = <<String(isTTSEnabled)>>
          /\ localStorage.theme # Null => localStorage.theme = <<theme>>)
    /\ [][/\ clock' # clock => isTTSEnabled' = isTTSEnabled /\ theme' = theme
          /\ theme' # theme =>
                /\ {theme, theme'} = {"light", "dark"}
                /\ localStorage'.theme = <<theme'>>
          /\ isTTSEnabled' # isTTSEnabled =>
                localStorage'.tts = <<String(isTTSEnabled')>>]_vars

\* the page was reloaded after the theme was switched to dark and
\* text-to-speech was switched off
C23_Witness ==
    /\ clock = 1
    /\ pageLoad = "history"
    /\ theme = "dark"
    /\ ~isTTSEnabled
    /\ localStorage = [theme |-> <<"dark">>, tts |-> <<"false">>]

\* C24: a send has one terminal outcome: the completion effects of a Done frame
\* (speak and the session-list refresh) happen at most once for a request, and
\* never for a request that also displays an error, be it the content of an
\* Error frame or the message of the catch block.
C24_OneTerminalOutcome ==
    \A i \in DOMAIN sends :
        /\ sends[i].trace.dones <= 1
        /\ sends[i].trace.dones > 0 =>
              /\ sends[i].trace.err = Null
              /\ ~Has(chatMessages, ErrorMessage(i))

\* the positions of the line of frame k in the body of frames
LineStart(frames, k) == IF k = 1 THEN 1 ELSE Len(Body(SubSeq(frames, 1, k - 1))) + 2
LineEnd(frames, k) == LineStart(frames, k) + Len(Encode(frames[k])) - 1

\* a read ends inside the line of frame k
IsCut(frames, cuts, k) ==
    \E c \in cuts : LineStart(frames, k) <= c /\ c < LineEnd(frames, k)

\* the frames of a response that lie within one read, in order
WholeFrames(w) ==
    LET keep == {k \in 1..Len(w.frames) : ~IsCut(w.frames, w.cuts, k)}
        kth(n) == CHOOSE k \in keep : Cardinality({j \in keep : j < k}) = n - 1
    IN  [n \in 1..Cardinality(keep) |-> w.frames[kth(n)]]

RECURSIVE TextOf(_)
TextOf(frames) ==
    IF frames = <<>> THEN <<>>
    ELSE (IF IsTextFrame(Head(frames)) THEN Head(frames).text ELSE <<>>) \o TextOf(Tail(frames))

\* C25: nothing is kept from one read to the next: when the stream of a
\* response has ended, however the body was cut into reads, the request has
\* completed, the accumulated text (and the rendered message) is the
\* concatenation of the deltas of the Text frames whose line lies within one
\* read, in order, and the frames that took effect are those frames only: a
\* frame whose line is cut by the end of a read has no effect, by either part.
C25_CutFramesAreLost ==
    \A i \in DOMAIN sends :
        wire # Null /\ sends[i].pc = "done" =>
            LET whole == WholeFrames(wire)
            IN  /\ sends[i].outcome = "completed"
                /\ sends[i].fullText = TextOf(whole)
                /\ sends[i].content = Html(Marked(TextOf(whole)))
                /\ sends[i].trace.arrived = TextOf(whole)
                /\ sends[i].trace.doneFrames = Count(whole, DoneFrame)
                /\ sends[i].trace.dones = Count(whole, DoneFrame)
                /\ sends[i].trace.err = Null

\* two Text frames, the line of the second cut between two reads: the first
\* delta alone is the text of the finished reply
C25_Witness ==
    /\ wire # Null
    /\ wire.frames = <<TextFrame(<<"a">>), TextFrame(<<"b">>)>>
    /\ wire.cuts = {10}
    /\ \E i \in DOMAIN sends :
          /\ sends[i].pc = "done"
          /\ sends[i].frames = 3
          /\ sends[i].fullText = <<"a">>

\* C26: while a reply streams in, a Text frame moves scrollTop only if the
\* viewport was within the threshold of the bottom immediately before the frame
\* was rendered: once the user has scrolled back, the later Text frames of the
\* reply leave scrollTop where it is.
C26_StreamScrollsOnlyNearBottom ==
    [][\A h \in MessageHeights :
          RenderText(h) /\ ~isNearBottom(viewport)
              => viewport'.scrollTop = viewport.scrollTop]_vars

\* C27: what a send issued on one session produces (the bot message it streams
\* into, with the text or the Error frame content, or the error message of its
\* catch block) is in the displayed transcript only while that session is the
\* active one; the session of a request is sessionId as it was at the send.
C27_ReplyStaysInItsSession ==
    \A i \in DOMAIN sends :
        Has(chatMessages, MessageDiv(i)) \/ Has(chatMessages, ErrorMessage(i))
            => sends[i].session = sessionId

\* C28: while a delete request is in flight currentChatToDelete is the id that
\* was sent in its body: no other action changes the pending-deletion id, so the
\* id deleteChat compares with sessionId on the response is the id it sent, and
\* no completion clears the intent of another deletion.
C28_PendingIdStableInFlight ==
    \A d \in DOMAIN deletes :
        deletes[d].pc = "fetch" => currentChatToDelete = deletes[d].sent

\* C29: whatever the interleaving of the loadChatHistory calls, the sidebar list
\* is empty or the rows of one /history/sessions response in the order of the
\* response, with no id in two rows; and in the step in which a response
\* arrives the list becomes the rows of that response, each marked active
\* exactly if its id is sessionId at that moment.
C29_ListIsOneResponse ==
    /\ [](\E l \in SessionLists : [p \in 1..Len(chatList) |-> chatList[p].id] = l)
    /\ [][(listFetches' < listFetches \/ (pageLoad = "sessions" /\ pageLoad' = "done"))
             => \E l \in SessionLists : chatList' = RenderList(l, sessionId')]_vars

\* two refreshes were in flight together (one of a delete of srv1 that was not
\* the active session, one of a new chat); the response to one has arrived
C29_Witness ==
    /\ listFetches = 1
    /\ clock = 1
    /\ \E d \in DOMAIN deletes : deletes[d].pc = "ok" /\ deletes[d].sent = <<"srv", 1>>
    /\ chatList = <<Row(<<"srv", 2>>, FALSE)>>

\* C30: sendMessage called with an input that is empty or only whitespace does
\* nothing: no message is appended and the empty state stays, no request is
\* issued, and the controls, sessionId and the input value are as before.
C30_BlankInputIsNoOp ==
    [][(ClickSend \/ PressEnter) /\ Trim(inputValue) = <<>>
          => UNCHANGED <<chatMessages, emptyTimer, sends, listFetches, inputDisabled,
                         sendDisabled, sessionId, inputValue>>]_vars

\* the page with its empty state, the controls enabled, and a blank in the input
C30_Witness ==
    /\ inputValue = <<" ">>
    /\ Enabled
    /\ sends = <<>>
    /\ emptyTimer = FALSE
    /\ chatMessages = <<EmptyState(FALSE)>>

====
